---- MODULE Spec2Model ----
(***************************************************************************)
(* Inventory Management System: the Express server's authentication,      *)
(* role authorization and inventory handlers, modelled as a state machine. *)
(* The credential store (User collection) and the inventory store          *)
(* (Inventory collection) are the shared state; every handler is one       *)
(* action per store round-trip it awaits.                                  *)
(***************************************************************************)
EXTENDS Integers, Sequences, FiniteSets, Bags, TLC

(***************************************************************************)
(* Bounds of the model.                                                    *)
(***************************************************************************)
MaxInFlight == 2   \* requests that may be between two awaits at once
MaxUid == 2        \* credential records ever created
MaxItemId == 1     \* inventory records ever created
MaxTokens == 1     \* tokens handed out by login and still held by clients
MaxStock == 4      \* inventory records of a store that is already filled
MaxDebt == 10      \* how far below zero a quantity is followed

(***************************************************************************)
(* Program constants.                                                      *)
(***************************************************************************)
ExpiresIn == 86400     \* expiresIn: "1d", in seconds
MsPerSec == 1000       \* Date.now() is in ms, NumericDate in s
SaltRounds == 10       \* bcrypt.hash(password, 10)

JWT_SECRET == "JWT_SECRET"
OtherKey == "attackerKey"

Roles == {"admin", "staff"}                 \* userSchema.role enum
Emails == {"a@x.io", "b@x.io"}
Names == {"Ann"}
Passwords == {"pw1"}
WrongPasswords == {"pw2"}
RoleInputs == {"admin"}     \* role values a body may carry

ItemNames == {"Widget"}
Categories == {"Tools"}
Quantities == {-1, 5}
Prices == {-1, 999}

(***************************************************************************)
(* ObjectId <-> string.  jwt.sign serialises user._id to its hex string;   *)
(* mongoose casts the string back to an ObjectId on save.                  *)
(***************************************************************************)
UserIds == 1..MaxUid
ItemIds == (MaxUid + 1)..(MaxUid + MaxItemId)
\* ids past ItemIds belong to the records of a store that is already stocked
ObjectIds == 1..(MaxUid + MaxItemId + 3 * MaxStock)
IdToString(i) == "oid" \o ToString(i)
IsObjectIdString(s) == \E i \in ObjectIds : IdToString(i) = s
CastObjectId(s) == CHOOSE i \in ObjectIds : IdToString(i) = s

(***************************************************************************)
(* The clock, in milliseconds.                                             *)
(***************************************************************************)
DayMs == ExpiresIn * MsPerSec
\* the instants the model observes: around the issue of a token and around
\* the end of its lifetime
ClockValues == { 0, MsPerSec \div 2, DayMs - 1, DayMs }
NowSeconds(ms) == ms \div MsPerSec          \* Math.floor(Date.now() / 1000)

(***************************************************************************)
(* Token codec (jsonwebtoken, HS256).  A signature is the pair of the key  *)
(* and the payload it was computed over, so it matches only that payload   *)
(* under that key.                                                         *)
(***************************************************************************)
Mac(key, payload) == <<key, payload>>

\* mutant: the role is not taken from the record
JwtSign_FixedRole(claims, key, ms) ==
    LET payload == [id |-> claims.id, role |-> "staff",
                    iat |-> NowSeconds(ms),
                    exp |-> NowSeconds(ms) + ExpiresIn]
    IN  [payload |-> payload, sig |-> Mac(key, payload)]

JwtSign(claims, key, ms) ==
    LET payload == [id |-> claims.id, role |-> claims.role,
                    iat |-> NowSeconds(ms),
                    exp |-> NowSeconds(ms) + ExpiresIn]
    IN  [payload |-> payload, sig |-> Mac(key, payload)]

\* mutant: the token lives one second too long
JwtVerify_LateExpiry(token, key, ms) ==
    IF token.sig # Mac(key, token.payload) THEN "invalid signature"
    ELSE IF NowSeconds(ms) > token.payload.exp THEN "jwt expired"
    ELSE "ok"

\* mutant: the payload is decoded, the signature is not checked
JwtVerify_NoSignatureCheck(token, key, ms) ==
    IF NowSeconds(ms) >= token.payload.exp THEN "jwt expired" ELSE "ok"

\* jwt.verify: "ok" or the error it throws
JwtVerify(token, key, ms) ==
    IF token.sig # Mac(key, token.payload) THEN "invalid signature"
    ELSE IF NowSeconds(ms) >= token.payload.exp THEN "jwt expired"
    ELSE "ok"

(***************************************************************************)
(* bcryptjs                                                                *)
(***************************************************************************)
BcryptHash(pw, rounds) == [rounds |-> rounds, of |-> pw]
\* mutant: every password matches
BcryptCompare_AlwaysTrue(pw, hash) == TRUE
BcryptCompare(pw, hash) == hash.of = pw

(***************************************************************************)
(* State.                                                                  *)
(***************************************************************************)
VARIABLES
    users,      \* User collection: set of credential records
    items,      \* Inventory collection: set of inventory records
    now,        \* Date.now(), ms
    issued,     \* what login returned and clients hold: {token, user}
    inflight,   \* bag of the requests that are between two awaits
    last,       \* the response sent by the step that led to this state
    nextUid,    \* next ObjectId of the User collection
    nextItem,   \* next ObjectId of the Inventory collection
    storeUp,    \* the database answers; FALSE: every store call rejects
    client      \* the browser: session holder, pages, request under way

vars == <<users, items, now, issued, inflight, last, nextUid, nextItem,
          storeUp, client>>

Has(r, f) == f \in DOMAIN r                \* r.f !== undefined
Absent == "<absent>"                       \* undefined
Field(r, f) == IF Has(r, f) THEN r[f] ELSE Absent          \* r.f

NoResponse == [op |-> "none"]
NoHeader == [scheme |-> "none"]
\* where no browser takes part, the client never leaves this value
NoClient == [at |-> "none"]

\* mutant: an unavailable store goes unnoticed
Rejects_OnlyRefusals(refused) == refused

\* an awaited store call rejects, and the handler's catch answers: the
\* store is unavailable, or the store refuses this call
Rejects(refused) == ~storeUp \/ refused

(***************************************************************************)
(* What a client can put in the Authorization header: nothing, a token it  *)
(* was issued, the same under another scheme, an issued token with one     *)
(* part altered, or a token signed with a key that is not the server's.    *)
(***************************************************************************)
HeldTokens == { g.token : g \in issued }

Tampered(t) ==
    { [t EXCEPT !.payload.role = IF @ = "admin" THEN "staff" ELSE "admin",
                 !.payload.exp = @ + ExpiresIn],
      [t EXCEPT !.sig = Mac(OtherKey, t.payload)] }

ClientHeaders ==
    {NoHeader}
    \cup { [scheme |-> "Bearer", token |-> t] : t \in HeldTokens }
    \cup { [scheme |-> "Basic", token |-> t] : t \in HeldTokens }
    \cup { [scheme |-> "Bearer", token |-> t] :
              t \in UNION { Tampered(i) : i \in HeldTokens } }

\* the register page sends the caller's token; anyone can send none
RegisterHeaders ==
    {NoHeader} \cup { [scheme |-> "Bearer", token |-> t] : t \in HeldTokens }

(***************************************************************************)
(* verifyToken middleware: the decoded payload becomes req.user and next() *)
(* runs the handler, or a 401 ends the request.                            *)
(***************************************************************************)
\* mutant: a request without a bearer token goes on to the handler
verifyToken_MissingHeaderPasses(hdr) ==
    IF hdr.scheme # "Bearer"
    THEN [next |-> TRUE, user |-> [id |-> "", role |-> ""]]
    ELSE LET r == JwtVerify(hdr.token, JWT_SECRET, now)
         IN  IF r = "ok"
             THEN [next |-> TRUE, user |-> hdr.token.payload]
             ELSE [next |-> FALSE, status |-> 401, message |-> r]

\* mutant: the subject's record is looked up and must still agree
verifyToken_ChecksStore(hdr) ==
    IF hdr.scheme # "Bearer"
    THEN [next |-> FALSE, status |-> 401,
          message |-> "Access denied. No token provided."]
    ELSE LET r == JwtVerify(hdr.token, JWT_SECRET, now)
             known == \E u \in users :
                         /\ IdToString(u.id) = hdr.token.payload.id
                         /\ u.role = hdr.token.payload.role
         IN  IF r = "ok" /\ known
             THEN [next |-> TRUE, user |-> hdr.token.payload]
             ELSE [next |-> FALSE, status |-> 401, message |-> r]

verifyToken(hdr) ==
    IF hdr.scheme # "Bearer"
    THEN [next |-> FALSE, status |-> 401,
          message |-> "Access denied. No token provided."]
    ELSE LET r == JwtVerify(hdr.token, JWT_SECRET, now)
         IN  IF r = "ok"
             THEN [next |-> TRUE, user |-> hdr.token.payload]
             ELSE [next |-> FALSE, status |-> 401, message |-> r]

(***************************************************************************)
(* userSchema: required fields, role enum with default, unique email.      *)
(***************************************************************************)
\* mutant: a body without a role makes an admin
UserDoc_DefaultAdmin(body, hashed) ==
    [name |-> Field(body, "name"), email |-> Field(body, "email"),
     password |-> hashed,
     role |-> IF Has(body, "role") THEN body.role ELSE "admin"]

UserDoc(body, hashed) ==
    [name |-> Field(body, "name"), email |-> Field(body, "email"),
     password |-> hashed,
     role |-> IF Has(body, "role") THEN body.role ELSE "staff"]

\* mutant: the role is not checked against the enum
UserValid_NoEnum(doc) ==
    /\ doc.name \notin {"", Absent}
    /\ doc.email \notin {"", Absent}

UserValid(doc) ==
    /\ doc.name \notin {"", Absent}
    /\ doc.email \notin {"", Absent}
    /\ doc.role \in Roles

FindUserByEmail(email) == { u \in users : u.email = email }

\* A running system: an admin, a staff member and one record the admin made.
SeedUsers ==
    { [id |-> 1, name |-> "Ann", email |-> "a@x.io",
       password |-> BcryptHash("pw1", SaltRounds), role |-> "admin"],
      [id |-> 2, name |-> "Ann", email |-> "b@x.io",
       password |-> BcryptHash("pw1", SaltRounds), role |-> "staff"] }
SeedItems ==
    { [id |-> MaxUid + 1, name |-> "Widget", category |-> "Tools",
       quantity |-> 5, price |-> 999, createdBy |-> 1, createdAt |-> 0] }

\* The stores are empty, or hold what earlier requests left there.
Init ==
    /\ \/ users = {} /\ items = {} /\ nextUid = 1 /\ nextItem = MaxUid + 1
       \/ /\ users = SeedUsers /\ items = SeedItems
          /\ nextUid = 3 /\ nextItem = MaxUid + 2
    /\ now = 0
    /\ issued = {}
    /\ inflight = EmptyBag
    /\ last = NoResponse
    /\ storeUp = TRUE
    /\ client = NoClient

(***************************************************************************)
(* POST /api/auth/register  (router.post("/register", registerUser))       *)
(***************************************************************************)
RegisterBodies ==
    { [name |-> n, email |-> e, password |-> p] :
          n \in Names, e \in Emails, p \in Passwords }
    \cup { [name |-> n, email |-> e, password |-> p, role |-> r] :
          n \in Names, e \in Emails, p \in Passwords, r \in RoleInputs }

InFlight(op) == { r \in BagToSet(inflight) : r.op = op }
Start(r) == inflight (+) SetToBag({r})
Finish(r) == inflight (-) SetToBag({r})
Room == BagCardinality(inflight) < MaxInFlight
\* ids are handed out up to MaxUid: no more creates are started than ids left
Creating ==
    BagCardinality([r \in InFlight("register") |-> CopiesIn(r, inflight)])

\* first await: User.findOne({ email })
registerUserFind(hdr, body) ==
    /\ Room
    /\ nextUid + Creating <= MaxUid
    /\ IF Rejects(FALSE)
       THEN /\ last' = [op |-> "register", hdr |-> hdr, body |-> body,
                        status |-> 500, created |-> FALSE]
            /\ inflight' = inflight
       ELSE IF FindUserByEmail(Field(body, "email")) # {}
       THEN /\ last' = [op |-> "register", hdr |-> hdr, body |-> body,
                        status |-> 400, created |-> FALSE]
            /\ inflight' = inflight
       ELSE /\ inflight' = Start([op |-> "register", hdr |-> hdr,
                                  body |-> body])
            /\ last' = NoResponse
    /\ UNCHANGED <<users, items, now, issued, nextUid, nextItem,
                 storeUp, client>>

\* second and third await: bcrypt.hash, User.create
registerUserCreate(r) ==
    /\ r \in InFlight("register")
    /\ LET body == r.body
           \* bcrypt.hash rejects a password that is no string
           hashed == IF Has(body, "password")
                     THEN BcryptHash(body.password, SaltRounds) ELSE Absent
           doc == UserDoc(body, hashed)
           ok == ~Rejects(\/ ~Has(body, "password")
                          \/ ~UserValid(doc)
                          \/ FindUserByEmail(doc.email) # {})
       IN  /\ users' = IF ok THEN users \cup {[id |-> nextUid] @@ doc}
                             ELSE users
           /\ nextUid' = IF ok THEN nextUid + 1 ELSE nextUid
           /\ last' = [op |-> "register", hdr |-> r.hdr, body |-> body,
                       status |-> IF ok THEN 200 ELSE 500, created |-> ok]
    /\ inflight' = Finish(r)
    /\ UNCHANGED <<items, now, issued, nextItem,
                 storeUp, client>>

(***************************************************************************)
(* POST /api/auth/login                                                    *)
(***************************************************************************)
loginUser(email, password) ==
    /\ LET found == FindUserByEmail(email)
       IN  IF Rejects(FALSE)
           THEN /\ last' = [op |-> "login", email |-> email,
                            password |-> password, status |-> 500]
                /\ issued' = issued
           ELSE IF found = {}
           THEN /\ last' = [op |-> "login", email |-> email,
                            password |-> password, status |-> 404]
                /\ issued' = issued
           ELSE LET user == CHOOSE u \in found : TRUE
                    token == JwtSign([id |-> IdToString(user.id),
                                      role |-> user.role], JWT_SECRET, now)
                IN  IF ~BcryptCompare(password, user.password)
                    THEN /\ last' = [op |-> "login", email |-> email,
                                     password |-> password, status |-> 401]
                         /\ issued' = issued
                    ELSE LET body == [token |-> token,
                                      user |-> [id |-> user.id,
                                                name |-> user.name,
                                                role |-> user.role]]
                         IN  /\ last' = [op |-> "login", email |-> email,
                                         password |-> password,
                                         status |-> 200] @@ body
                             /\ issued' = issued \cup {body}
    /\ UNCHANGED <<users, items, now, inflight, nextUid, nextItem,
                 storeUp, client>>

(***************************************************************************)
(* inventorySchema: required fields, quantity and price not below 0.       *)
(***************************************************************************)
ItemFieldsValid(doc) ==
    /\ Has(doc, "name") => doc.name # ""
    /\ Has(doc, "category") => doc.category # ""
    /\ Has(doc, "quantity") => doc.quantity >= 0
    /\ Has(doc, "price") => doc.price >= 0

ItemValid(doc) ==
    /\ \A f \in {"name", "category", "quantity", "price", "createdBy"} :
          Has(doc, f)
    /\ ItemFieldsValid(doc)

FindItemById(id) == { i \in items : i.id = id }

ItemBodies ==
    { [name |-> n, category |-> c, quantity |-> q, price |-> p] :
          n \in ItemNames, c \in Categories, q \in Quantities, p \in Prices }

UpdateBodies == { [quantity |-> q] : q \in {-1, 7} }

ParamIds == { IdToString(i) : i \in ItemIds } \cup {"bad"}

\* mutant: the role check is missing
Forbidden_NoCheck(user) == FALSE

\* if (user.role !== "admin") return res.status(403)
Forbidden(user) == user.role # "admin"

\* the response of a protected route that verifyToken ended
Unauthenticated(op, hdr) ==
    [op |-> op, hdr |-> hdr, status |-> 401, handled |-> FALSE]

(***************************************************************************)
(* GET /api/items/test  (router.get("/test", verifyToken, ...))            *)
(***************************************************************************)
testRoute(hdr) ==
    /\ LET v == verifyToken(hdr)
       IN  last' = IF ~v.next THEN Unauthenticated("test", hdr)
                   ELSE [op |-> "test", hdr |-> hdr, status |-> 200,
                         handled |-> TRUE, user |-> v.user]
    /\ UNCHANGED <<users, items, now, issued, inflight, nextUid, nextItem,
                 storeUp, client>>

(***************************************************************************)
(* POST /api/items  (router.post("/", verifyToken, createItem))            *)
(***************************************************************************)
createItem(hdr, body) ==
    /\ LET v == verifyToken(hdr)
       IN  IF ~v.next
           THEN /\ last' = Unauthenticated("create", hdr)
                /\ UNCHANGED <<items, nextItem>>
           ELSE IF Forbidden(v.user)
           THEN /\ last' = [op |-> "create", hdr |-> hdr, body |-> body,
                            status |-> 403,
                            handled |-> TRUE]
                /\ UNCHANGED <<items, nextItem>>
           ELSE LET doc == [name |-> body.name, category |-> body.category,
                            quantity |-> body.quantity, price |-> body.price,
                            createdBy |-> CastObjectId(v.user.id)]
                IN  IF Rejects(~ItemValid(doc))
                    THEN /\ last' = [op |-> "create", hdr |-> hdr, body |-> body,
                                     status |-> 500, handled |-> TRUE]
                         /\ UNCHANGED <<items, nextItem>>
                    ELSE /\ nextItem <= MaxUid + MaxItemId
                         /\ items' = items \cup
                               {[id |-> nextItem, createdAt |-> now] @@ doc}
                         /\ nextItem' = nextItem + 1
                         /\ last' = [op |-> "create", hdr |-> hdr, body |-> body,
                                     status |-> 200, handled |-> TRUE,
                                     item |-> nextItem]
    /\ UNCHANGED <<users, now, issued, inflight, nextUid,
                 storeUp, client>>

(***************************************************************************)
(* PUT /api/items/:id  (router.put("/:id", verifyToken, updateItem))       *)
(***************************************************************************)
updateItem(hdr, id, body) ==
    /\ LET v == verifyToken(hdr)
       IN  IF ~v.next
           THEN /\ last' = Unauthenticated("update", hdr)
                /\ items' = items
           ELSE IF Forbidden(v.user)
           THEN /\ last' = [op |-> "update", hdr |-> hdr, id |-> id,
                                     body |-> body, status |-> 403,
                            handled |-> TRUE]
                /\ items' = items
           ELSE IF Rejects(\/ ~IsObjectIdString(id)
                           \/ ~ItemFieldsValid(body)
                           \/ Has(body, "createdBy")
                                 /\ ~IsObjectIdString(body.createdBy))
           THEN /\ last' = [op |-> "update", hdr |-> hdr, id |-> id,
                                     body |-> body, status |-> 500,
                            handled |-> TRUE]
                /\ items' = items
           ELSE LET found == FindItemById(CastObjectId(id))
                IN  IF found = {}
                    THEN /\ last' = [op |-> "update", hdr |-> hdr, id |-> id,
                                     body |-> body,
                                     status |-> 404, handled |-> TRUE]
                         /\ items' = items
                    ELSE LET old == CHOOSE i \in found : TRUE
                             \* the plain fields become a $set, cast to
                             \* the schema's types and validated; a $inc
                             \* of the body is applied as it is
                             set == [f \in DOMAIN body \ {"$inc"} |->
                                        IF f = "createdBy"
                                        THEN CastObjectId(body[f])
                                        ELSE body[f]]
                             inc == IF Has(body, "$inc") THEN body["$inc"]
                                    ELSE << >>
                             new == [f \in DOMAIN old |->
                                        IF f \in DOMAIN inc
                                        THEN old[f] + inc[f]
                                        ELSE old[f]]
                         IN  /\ items' = (items \ {old}) \cup {set @@ new}
                             /\ last' = [op |-> "update", hdr |-> hdr, id |-> id,
                                     body |-> body,
                                         status |-> 200, handled |-> TRUE,
                                         item |-> old.id]
    /\ UNCHANGED <<users, now, issued, inflight, nextUid, nextItem,
                 storeUp, client>>

(***************************************************************************)
(* DELETE /api/items/:id  (router.delete("/:id", verifyToken, deleteItem)) *)
(***************************************************************************)
deleteItem(hdr, id) ==
    /\ LET v == verifyToken(hdr)
       IN  IF ~v.next
           THEN /\ last' = Unauthenticated("delete", hdr)
                /\ items' = items
           ELSE IF Forbidden(v.user)
           THEN /\ last' = [op |-> "delete", hdr |-> hdr, id |-> id, status |-> 403,
                            handled |-> TRUE]
                /\ items' = items
           ELSE IF Rejects(~IsObjectIdString(id))
           THEN /\ last' = [op |-> "delete", hdr |-> hdr, id |-> id, status |-> 500,
                            handled |-> TRUE]
                /\ items' = items
           ELSE LET found == FindItemById(CastObjectId(id))
                IN  /\ items' = items \ found
                    /\ last' = [op |-> "delete", hdr |-> hdr, id |-> id,
                                status |-> IF found = {} THEN 404 ELSE 200,
                                handled |-> TRUE]
    /\ UNCHANGED <<users, now, issued, inflight, nextUid, nextItem,
                 storeUp, client>>

(***************************************************************************)
(* GET /api/items  (router.get("/", verifyToken, getAllItems))             *)
(* req.query maps every parameter to a string, or the parameter is absent. *)
(***************************************************************************)
Truthy(s) == s \notin {Absent, ""}

\* a JavaScript number: an integer, NaN or Infinity
Num(n) == [k |-> "num", n |-> n]
NaN == [k |-> "NaN"]
Infinity == [k |-> "Infinity"]

NumberTable ==
    ("" :> 0) @@ ("0" :> 0) @@ ("1" :> 1) @@ ("2" :> 2) @@ ("3" :> 3)
    @@ ("4" :> 4) @@ ("5" :> 5) @@ ("10" :> 10) @@ ("20" :> 20)
    @@ ("-1" :> -1)

\* Number(s)
JsNumber(s) == IF s \in DOMAIN NumberTable THEN Num(NumberTable[s]) ELSE NaN

\* page = 1, limit = 10, sort = "createdAt", order = "desc" when undefined
PageOf(q) == IF q.page = Absent THEN Num(1) ELSE JsNumber(q.page)
LimitOf(q) == IF q.limit = Absent THEN Num(10) ELSE JsNumber(q.limit)
SortOf(q) == IF q.sort = Absent THEN "createdAt" ELSE q.sort
OrderOf(q) == IF q.order = Absent THEN "desc" ELSE q.order

\* (Number(page) - 1) * Number(limit)
SkipOf(q) ==
    IF PageOf(q) = NaN \/ LimitOf(q) = NaN THEN NaN
    ELSE Num((PageOf(q).n - 1) * LimitOf(q).n)

\* { $regex: pattern, $options: "i" } over the strings of the model
InvalidRegex == {"("}
RegexTable ==
    { <<"wid", "Widget">>, <<"Widget", "Widget">>, <<"tool", "Tools">>,
      <<"Tools", "Tools">>, <<".", "Widget">>, <<".", "Tools">>,
      <<"get", "Widget">>, <<"get", "Gadget">>, <<".", "Gadget">>,
      <<"to", "Tools">>, <<"to", "Toys">>, <<".", "Toys">> }
RegexTest(pattern, str) == <<pattern, str>> \in RegexTable

Cents(n) == n * 100          \* prices are kept in hundredths

\* mutant: the upper bound on quantity is left out of the query
Matches_NoMaxQty(i, q) ==
    /\ Truthy(q.search) => RegexTest(q.search, i.name)
    /\ Truthy(q.category) => RegexTest(q.category, i.category)
    /\ Truthy(q.minPrice) =>
          /\ JsNumber(q.minPrice) # NaN
          /\ i.price >= Cents(JsNumber(q.minPrice).n)
    /\ Truthy(q.maxPrice) =>
          /\ JsNumber(q.maxPrice) # NaN
          /\ i.price <= Cents(JsNumber(q.maxPrice).n)
    /\ Truthy(q.minQty) =>
          /\ JsNumber(q.minQty) # NaN
          /\ i.quantity >= JsNumber(q.minQty).n

Matches(i, q) ==
    /\ Truthy(q.search) => RegexTest(q.search, i.name)
    /\ Truthy(q.category) => RegexTest(q.category, i.category)
    /\ Truthy(q.minPrice) =>
          /\ JsNumber(q.minPrice) # NaN
          /\ i.price >= Cents(JsNumber(q.minPrice).n)
    /\ Truthy(q.maxPrice) =>
          /\ JsNumber(q.maxPrice) # NaN
          /\ i.price <= Cents(JsNumber(q.maxPrice).n)
    /\ Truthy(q.minQty) =>
          /\ JsNumber(q.minQty) # NaN
          /\ i.quantity >= JsNumber(q.minQty).n
    /\ Truthy(q.maxQty) =>
          /\ JsNumber(q.maxQty) # NaN
          /\ i.quantity <= JsNumber(q.maxQty).n

Matching(q) == { i \in items : Matches(i, q) }

\* { [sort]: order === "asc" ? 1 : -1 }
SortOptions(q) ==
    [field |-> SortOf(q), dir |-> IF OrderOf(q) = "asc" THEN 1 ELSE -1]

\* what makes the store reject the find: a pattern that is no regular
\* expression, a range bound that is NaN (the cast to the Number path
\* fails), a skip that is NaN or negative, a limit that is NaN
FindThrows(q) ==
    \/ Truthy(q.search) /\ q.search \in InvalidRegex
    \/ Truthy(q.category) /\ q.category \in InvalidRegex
    \/ \E f \in {"minPrice", "maxPrice", "minQty", "maxQty"} :
          Truthy(q[f]) /\ JsNumber(q[f]) = NaN
    \/ SkipOf(q) = NaN
    \/ SkipOf(q) # NaN /\ SkipOf(q).n < 0
    \/ LimitOf(q) = NaN

NameRank == ("Gadget" :> 0) @@ ("Widget" :> 1)
SortKey(i, field) ==
    CASE field = "price" -> i.price
      [] field = "quantity" -> i.quantity
      [] field = "createdAt" -> i.createdAt
      [] field = "name" -> NameRank[i.name]
      [] field = "createdBy" -> i.createdBy
      [] OTHER -> 0

\* the records that may come first: order === "asc" ? 1 : -1
Firsts(S, field, order) ==
    { a \in S : \A b \in S :
          IF order = "asc" THEN SortKey(a, field) <= SortKey(b, field)
          ELSE SortKey(a, field) >= SortKey(b, field) }

\* the orders .sort({ [sort]: 1 or -1 }) may return: the store promises no
\* order among records that tie on the sort field
RECURSIVE SortedOrders(_, _, _)
SortedOrders(S, field, order) ==
    IF S = {} THEN { <<>> }
    ELSE UNION { { <<a>> \o rest :
                       rest \in SortedOrders(S \ {a}, field, order) } :
                 a \in Firsts(S, field, order) }

\* .skip(skip).limit(limit); limit 0 is no limit, a negative limit is a
\* single batch of at most -limit records
PageOfSeq(f, skip, limit) ==
    LET size == IF limit < 0 THEN -limit ELSE limit
        hi == IF size = 0 \/ skip + size > Len(f) THEN Len(f)
              ELSE skip + size
    IN  SubSeq(f, skip + 1, hi)

\* mutant: the creator is looked up without the reference
Populate_AnyUser(i) ==
    [i EXCEPT !.createdBy =
        { [id |-> u.id, name |-> u.name, email |-> u.email] : u \in users }]

\* .populate("createdBy", "name email"): the creator, or nothing
Populate(i) ==
    [i EXCEPT !.createdBy =
        { [id |-> u.id, name |-> u.name, email |-> u.email] :
              u \in { x \in users : x.id = i.createdBy } }]

\* Math.ceil(total / limit)
TotalPages(total, limit) ==
    IF limit = NaN THEN NaN
    ELSE IF limit.n = 0 THEN (IF total = 0 THEN NaN ELSE Infinity)
    ELSE IF limit.n > 0 THEN Num((total + limit.n - 1) \div limit.n)
    ELSE Num(-(total \div (-limit.n)))

DefaultQuery ==
    [search |-> Absent, category |-> Absent, minPrice |-> Absent,
     maxPrice |-> Absent, minQty |-> Absent, maxQty |-> Absent,
     page |-> Absent, limit |-> Absent, sort |-> Absent, order |-> Absent]

Queries ==
    { DefaultQuery,
      [DefaultQuery EXCEPT !.page = "0"] }

\* verifyToken, then the first await: Inventory.find(query)...
getAllItemsFind(hdr, q) ==
    /\ Room
    /\ LET v == verifyToken(hdr)
       IN  IF ~v.next
           THEN /\ last' = Unauthenticated("list", hdr)
                /\ inflight' = inflight
           ELSE IF Rejects(FindThrows(q))
           THEN /\ last' = [op |-> "list", hdr |-> hdr, status |-> 500,
                            handled |-> TRUE, query |-> q]
                /\ inflight' = inflight
           ELSE \E f \in SortedOrders(Matching(q), SortOf(q), OrderOf(q)) :
                  LET page == PageOfSeq(f, SkipOf(q).n, LimitOf(q).n)
                  IN  /\ inflight' = Start(
                             [op |-> "list", hdr |-> hdr, query |-> q,
                              sortOptions |-> SortOptions(q),
                              skip |-> SkipOf(q).n, limit |-> LimitOf(q).n,
                              found |-> [n \in 1..Len(page) |->
                                            Populate(page[n])]])
                      /\ last' = NoResponse
    /\ UNCHANGED <<users, items, now, issued, nextUid, nextItem,
                 storeUp, client>>

\* the second await: Inventory.countDocuments(query), then the response
getAllItemsCount(r) ==
    /\ r \in InFlight("list")
    /\ LET q == r.query
           total == Cardinality(Matching(q))
       IN  last' = IF Rejects(FALSE)
                   THEN [op |-> "list", hdr |-> r.hdr, status |-> 500,
                         handled |-> TRUE, query |-> q]
                   ELSE [op |-> "list", hdr |-> r.hdr, status |-> 200,
                         handled |-> TRUE, query |-> q,
                         totalItems |-> total,
                         currentPage |-> PageOf(q),
                         totalPages |-> TotalPages(total, LimitOf(q)),
                         items |-> r.found]
    /\ inflight' = Finish(r)
    /\ UNCHANGED <<users, items, now, issued, nextUid, nextItem,
                 storeUp, client>>

(***************************************************************************)
(* The credential store is the database's: records change or disappear     *)
(* there without any request of this server.                               *)
(***************************************************************************)
StoreRemoveUser(u) ==
    /\ u \in users
    /\ users' = users \ {u}
    /\ last' = NoResponse
    /\ UNCHANGED <<items, now, issued, inflight, nextUid, nextItem,
                 storeUp, client>>

StoreSetRole(u, role) ==
    /\ u \in users
    /\ role # u.role
    /\ users' = (users \ {u}) \cup {[u EXCEPT !.role = role]}
    /\ last' = NoResponse
    /\ UNCHANGED <<items, now, issued, inflight, nextUid, nextItem,
                 storeUp, client>>

\* the database becomes unreachable, or reachable again
StoreOutage ==
    /\ storeUp' = ~storeUp
    /\ last' = NoResponse
    /\ UNCHANGED <<users, items, now, issued, inflight, nextUid, nextItem,
                   client>>

(***************************************************************************)
(* The clock.                                                              *)
(***************************************************************************)
Tick ==
    /\ \E t \in ClockValues : t > now /\ now' = t
    /\ last' = NoResponse
    /\ UNCHANGED <<users, items, issued, inflight, nextUid, nextItem,
                 storeUp, client>>

(***************************************************************************)
(* Vocabulary of the claims.                                               *)
(***************************************************************************)
AdminOps == {"create", "update", "delete"}
ProtectedOps == AdminOps \cup {"list", "test"}

\* the header carries, as a bearer token, a token that login returned
CarriesIssued(hdr) == hdr.scheme = "Bearer" /\ hdr.token \in HeldTokens

\* the instant, in ms, at which a token issued at iat (s) is 24 hours old
ExpiryMs(token) == (token.payload.iat + 24 * 60 * 60) * 1000

\* a valid, unexpired token
Authentic(hdr) == CarriesIssued(hdr) /\ now < ExpiryMs(hdr.token)

RecordsWithEmail(e) == { u \in users : u.email = e }

(***************************************************************************)
(* C1.  The inventory store changes only in a step that answers 200 to a   *)
(* POST, PUT or DELETE on /items carrying a valid, unexpired token whose   *)
(* role is admin; the same requests with a valid token of another role are *)
(* answered 403 and leave the store as it was.                             *)
(***************************************************************************)
C1_OnlyAdminModifiesStore ==
    [][ /\ items' # items =>
              /\ last'.op \in AdminOps
              /\ last'.status = 200
              /\ Authentic(last'.hdr)
              /\ last'.hdr.token.payload.role = "admin"
        /\ ( /\ last'.op \in AdminOps
             /\ Authentic(last'.hdr)
             /\ last'.hdr.token.payload.role # "admin" ) =>
              /\ last'.status = 403
              /\ items' = items ]_vars

\* a staff token was refused on a record that exists
C1_Witness ==
    /\ last.op \in {"update", "delete"}
    /\ last.status = 403
    /\ items # {}

(***************************************************************************)
(* C2.  On the admin-only endpoints authentication is decided before the   *)
(* role: without a token the answer is 401, a 403 is given only to a       *)
(* request whose token is valid, and a valid staff token is answered 403.  *)
(***************************************************************************)
C2_AuthBeforeRole ==
    last.op \in AdminOps =>
        /\ last.hdr = NoHeader => last.status = 401
        /\ ~Authentic(last.hdr) => last.status = 401
        /\ (Authentic(last.hdr) /\ last.hdr.token.payload.role = "staff")
              => last.status = 403

\* an expired staff token on an admin-only endpoint: 401, not 403
C2_Witness ==
    /\ last.op \in AdminOps
    /\ CarriesIssued(last.hdr)
    /\ last.hdr.token.payload.role = "staff"
    /\ now >= ExpiryMs(last.hdr.token)
    /\ last.status = 401

(***************************************************************************)
(* C3.  POST /auth/register creates a Credential Record only for a request *)
(* that carries a valid bearer token of an admin.                          *)
(***************************************************************************)
C3_RegisterOnlyByAdmin ==
    (last.op = "register" /\ last.created) =>
        /\ CarriesIssued(last.hdr)
        /\ last.hdr.token.payload.role = "admin"

(***************************************************************************)
(* C4.  No two Credential Records share an email, and a register request   *)
(* for an email that already has a record is answered 400, also when two   *)
(* such requests interleave.                                               *)
(***************************************************************************)
C4_DuplicateEmailAnswered400 ==
    /\ \A u, w \in users : u.email = w.email => u = w
    /\ ( /\ last.op = "register"
         /\ ~last.created
         /\ RecordsWithEmail(last.body.email) # {} ) => last.status = 400

(***************************************************************************)
(* C5.  login answers 404 when no record has the email, 401 when the       *)
(* record's hash is not of the password, and 200 with a token and the      *)
(* record's {id, name, role} only when it is; 404 and 401 carry no token.  *)
(***************************************************************************)
C5_LoginOutcomes ==
    last.op = "login" =>
        LET found == RecordsWithEmail(last.email)
            right == { u \in found : u.password.of = last.password }
        IN  /\ found = {} => last.status = 404
            /\ (found # {} /\ right = {}) => last.status = 401
            /\ right # {} =>
                  /\ last.status = 200
                  /\ \E u \in right :
                        last.user = [id |-> u.id, name |-> u.name,
                                     role |-> u.role]
                  /\ [token |-> last.token, user |-> last.user] \in issued
            /\ last.status \in {404, 401} => ~Has(last, "token")

\* a wrong password for an existing record
C5_Witness ==
    /\ last.op = "login"
    /\ last.status = 401
    /\ RecordsWithEmail(last.email) # {}

(***************************************************************************)
(* C6.  A token returned by login, verified before it expires, gives a     *)
(* Principal whose id and role are those of the record login answered      *)
(* with.                                                                   *)
(***************************************************************************)
C6_LoginThenVerify ==
    /\ \A g \in issued :
          now < ExpiryMs(g.token) =>
              LET v == verifyToken([scheme |-> "Bearer", token |-> g.token])
              IN  /\ v.next
                  /\ IsObjectIdString(v.user.id)
                  /\ CastObjectId(v.user.id) = g.user.id
                  /\ v.user.role = g.user.role
    /\ (last.op = "test" /\ last.status = 200) =>
          \E g \in issued :
              /\ g.token = last.hdr.token
              /\ last.user.id = IdToString(g.user.id)
              /\ last.user.role = g.user.role

\* a token presented on the last instant of its life, after the role of its
\* subject's record has changed
C6_Witness ==
    /\ last.op = "test"
    /\ last.status = 200
    /\ now > 0
    /\ \E g \in issued :
          /\ g.token = last.hdr.token
          /\ \E u \in users : u.id = g.user.id /\ u.role # g.user.role

(***************************************************************************)
(* C7.  A token issued at t (its iat, the issue instant in whole seconds)  *)
(* is accepted at every instant before t + 24h and rejected as expired,    *)
(* with a 401, at every instant from t + 24h on.                           *)
(***************************************************************************)
C7_ExpiresAfter24h ==
    /\ \A g \in issued :
          LET v == verifyToken([scheme |-> "Bearer", token |-> g.token])
          IN  /\ g.token.payload.iat * 1000 <= now
              /\ now < ExpiryMs(g.token) => v.next
              /\ now >= ExpiryMs(g.token) =>
                    /\ ~v.next
                    /\ v.status = 401
                    /\ v.message = "jwt expired"
    /\ (last.op = "login" /\ last.status = 200) =>
          /\ last.token.payload.iat * 1000 <= now
          /\ now < (last.token.payload.iat + 1) * 1000
    /\ (last.op \in AdminOps \cup {"test"} /\ CarriesIssued(last.hdr)) =>
          (last.status = 401 <=> now >= ExpiryMs(last.hdr.token))

\* a token issued in the first second, refused 24 hours after second 0
C7_Witness ==
    /\ last.op = "test"
    /\ last.status = 401
    /\ CarriesIssued(last.hdr)
    /\ last.hdr.token.payload.iat = 0
    /\ now = 24 * 60 * 60 * 1000

(***************************************************************************)
(* C8.  On every protected route a request without an Authorization        *)
(* header, with one that does not start with "Bearer ", or with a token    *)
(* the server did not sign (an issued token with a part altered included)  *)
(* is answered 401; its handler does not run and the stores are untouched. *)
(***************************************************************************)
C8_BadHeaderIs401 ==
    /\ (last.op \in ProtectedOps /\ ~CarriesIssued(last.hdr)) =>
          /\ last.status = 401
          /\ ~last.handled
    /\ \A r \in InFlight("list") : CarriesIssued(r.hdr)

\* an issued token with a part altered
C8_Witness ==
    /\ last.op \in AdminOps
    /\ last.status = 401
    /\ last.hdr.scheme = "Bearer"
    /\ last.hdr.token \notin HeldTokens
    /\ \E t \in HeldTokens : last.hdr.token.sig = t.sig
    /\ items # {}

(***************************************************************************)
(* C9.  What verifyToken decides is a function of the token and the time   *)
(* alone: the answer to a request carrying an issued token is the one      *)
(* fixed by the token's own role and expiry, whatever has become of the    *)
(* subject's Credential Record.                                            *)
(***************************************************************************)
DecisionOf(token, ms) ==
    IF ms >= ExpiryMs(token) THEN "401"
    ELSE IF token.payload.role = "admin" THEN "admin" ELSE "403"

C9_DecisionIgnoresStore ==
    /\ (last.op \in AdminOps /\ CarriesIssued(last.hdr)) =>
          LET d == DecisionOf(last.hdr.token, now)
          IN  /\ d = "401" <=> last.status = 401
              /\ d = "403" <=> last.status = 403
              /\ d = "admin" <=> last.status \in {200, 404, 500}
    /\ (last.op = "test" /\ CarriesIssued(last.hdr)) =>
          IF DecisionOf(last.hdr.token, now) = "401"
          THEN last.status = 401
          ELSE last.status = 200 /\ last.user = last.hdr.token.payload

\* the admin whose record is gone, or is staff by now, still acts as admin
C9_Witness ==
    /\ last.op \in AdminOps
    /\ last.status = 200
    /\ ~\E u \in users :
          /\ IdToString(u.id) = last.hdr.token.payload.id
          /\ u.role = "admin"

(***************************************************************************)
(* C10.  GET /items with a valid, unexpired token of either role is        *)
(* answered 200 with {items, totalItems, currentPage, totalPages}, and     *)
(* never 403.                                                              *)
(***************************************************************************)
C10_ListAnswers200 ==
    (last.op = "list" /\ CarriesIssued(last.hdr) /\ last.status # 401) =>
        /\ last.status = 200
        /\ \A f \in {"items", "totalItems", "currentPage", "totalPages"} :
              Has(last, f)


\* the response has left: `last` shows a response only in the state that
\* follows the step that sent it
Sent ==
    /\ last # NoResponse
    /\ last' = NoResponse
    /\ UNCHANGED <<users, items, now, issued, inflight, nextUid, nextItem,
                 storeUp, client>>

Ready == last = NoResponse

Next ==
    \/ \E h \in RegisterHeaders, b \in RegisterBodies :
          Ready /\ registerUserFind(h, b)
    \/ \E r \in InFlight("register") : Ready /\ registerUserCreate(r)
    \/ \E e \in Emails, p \in Passwords \cup WrongPasswords :
          Ready /\ loginUser(e, p) /\ Cardinality(issued') <= MaxTokens
    \/ \E h \in ClientHeaders : Ready /\ testRoute(h)
    \/ \E h \in ClientHeaders, b \in ItemBodies : Ready /\ createItem(h, b)
    \/ \E h \in ClientHeaders, i \in ParamIds, b \in UpdateBodies :
          Ready /\ updateItem(h, i, b)
    \/ \E h \in ClientHeaders, i \in ParamIds : Ready /\ deleteItem(h, i)
    \/ \E h \in ClientHeaders, q \in Queries : Ready /\ getAllItemsFind(h, q)
    \/ \E r \in InFlight("list") : Ready /\ getAllItemsCount(r)
    \/ \E u \in users : Ready /\ StoreRemoveUser(u)
    \/ \E u \in users, r \in Roles : Ready /\ StoreSetRole(u, r)
    \/ Ready /\ Tick
    \/ Sent

Spec == Init /\ [][Next]_vars

(***************************************************************************)
(* The walk-through of the interface: an admin A and a staff member S, one *)
(* request at a time, starting from empty stores.  A registers with the    *)
(* role in the body, S is registered without one; both log in; either of   *)
(* them sends POST /items for the Widget, GET /items?minPrice=5&maxPrice=20 *)
(* and DELETE /items/{widgetId}.                                           *)
(***************************************************************************)
AdminBody ==
    [name |-> "Ann", email |-> "a@x.io", password |-> "pw1", role |-> "admin"]
StaffBody == [name |-> "Ann", email |-> "b@x.io", password |-> "pw1"]
WidgetBody ==
    [name |-> "Widget", category |-> "Tools", quantity |-> 5, price |-> 999]
PriceRangeQuery == [DefaultQuery EXCEPT !.minPrice = "5", !.maxPrice = "20"]
BearerHeaders == { [scheme |-> "Bearer", token |-> t] : t \in HeldTokens }
Idle == Ready /\ inflight = EmptyBag

ScenarioInit ==
    /\ users = {} /\ items = {} /\ nextUid = 1 /\ nextItem = MaxUid + 1
    /\ now = 0
    /\ issued = {}
    /\ inflight = EmptyBag
    /\ last = NoResponse
    /\ storeUp = TRUE
    /\ client = NoClient

ScenarioNext ==
    \/ \E h \in RegisterHeaders, b \in {AdminBody, StaffBody} :
          Idle /\ registerUserFind(h, b)
    \/ \E r \in InFlight("register") : Ready /\ registerUserCreate(r)
    \/ \E e \in Emails :
          Idle /\ loginUser(e, "pw1") /\ Cardinality(issued') <= MaxTokens + 1
    \/ \E h \in BearerHeaders : Idle /\ createItem(h, WidgetBody)
    \/ \E h \in BearerHeaders : Idle /\ getAllItemsFind(h, PriceRangeQuery)
    \/ \E r \in InFlight("list") : Ready /\ getAllItemsCount(r)
    \/ \E h \in BearerHeaders, i \in ItemIds :
          Idle /\ deleteItem(h, IdToString(i))
    \/ Sent

ScenarioSpec == ScenarioInit /\ [][ScenarioNext]_vars

\* the role in the payload of the token a response answers
RoleOf(r) == r.hdr.token.payload.role

(***************************************************************************)
(* C11.  In the walk-through from empty stores every step has the outcome  *)
(* the scenario names: registering an email not yet in the store is        *)
(* answered 200 and stores the record with the role given (staff when none *)
(* is given); S's POST /items is answered 403 and stores nothing; A's POST *)
(* /items of the Widget is answered 200 and the record is stored with      *)
(* createdBy = A.id; S's GET /items?minPrice=5&maxPrice=20 is answered 200 *)
(* and contains every Widget of the store; S's DELETE is answered 403 and  *)
(* the record stays.                                                       *)
(***************************************************************************)
C11_ScenarioOutcomes ==
    [][ /\ (last'.op = "register" /\ last' # last
               /\ FindUserByEmail(last'.body.email) = {}) =>
              /\ last'.status = 200
              /\ \E u \in users' \ users :
                    /\ u.email = last'.body.email
                    /\ u.role = IF Has(last'.body, "role")
                                THEN last'.body.role ELSE "staff"
        /\ (last'.op = "create" /\ RoleOf(last') = "staff") =>
              /\ last'.status = 403
              /\ items' = items
        /\ (last'.op = "create" /\ RoleOf(last') = "admin") =>
              /\ last'.status = 200
              /\ \E i \in items' \ items, a \in users :
                    /\ i.id = last'.item
                    /\ [f \in DOMAIN WidgetBody |-> i[f]] = WidgetBody
                    /\ a.role = "admin"
                    /\ IdToString(a.id) = last'.hdr.token.payload.id
                    /\ i.createdBy = a.id
        /\ (last'.op = "list" /\ RoleOf(last') = "staff") =>
              /\ last'.status = 200
              /\ \A i \in items : i.name = "Widget" =>
                    \E n \in DOMAIN last'.items : last'.items[n].id = i.id
        /\ (last'.op = "delete" /\ RoleOf(last') = "staff") =>
              /\ last'.status = 403
              /\ items' = items
      ]_vars

\* the end of the walk-through: S's DELETE was refused, and the Widget A
\* made is still in the store
C11_Witness ==
    /\ last.op = "delete" /\ last.status = 403
    /\ RoleOf(last) = "staff"
    /\ \E a, b \in users, i \in items :
          /\ a.role = "admin" /\ b.role = "staff"
          /\ IdToString(b.id) = last.hdr.token.payload.id
          /\ i.createdBy = a.id /\ i.name = "Widget" /\ i.price = 999
          /\ IdToString(i.id) \in ParamIds

(***************************************************************************)
(* The listing on its own: a store that earlier requests filled, a staff   *)
(* member who logged in, and GET /items with every parameter taken from    *)
(* strings a client can send.  Nothing writes to the inventory.            *)
(***************************************************************************)
StockQuantity == <<5, 0, 7, 2>>
StockPrice == <<999, 999, 400, 1500>>
StockIds == (MaxUid + MaxItemId + 1)..(MaxUid + MaxItemId + MaxStock)
Stock(k) ==
    [id |-> MaxUid + MaxItemId + k,
     name |-> IF k % 2 = 1 THEN "Widget" ELSE "Gadget",
     category |-> IF ((k - 1) \div 2) % 2 = 0 THEN "Tools" ELSE "Toys",
     quantity |-> StockQuantity[((k - 1) % 4) + 1],
     price |-> StockPrice[((k - 1) % 4) + 1],
     createdBy |-> IF k % 2 = 1 THEN 1 ELSE 2,
     createdAt |-> k \div 2]

\* what loginUser answered to the staff member at time 0
StaffLogin ==
    [token |-> JwtSign([id |-> IdToString(2), role |-> "staff"],
                       JWT_SECRET, 0),
     user |-> [id |-> 2, name |-> "Ann", role |-> "staff"]]

ParamValues ==
    [search |-> {"wid", "(", ".", ""},
     category |-> {"tool"},
     minPrice |-> {"5", "abc", "-1"},
     maxPrice |-> {"10", "abc", "-1"},
     minQty |-> {"2", "abc"},
     maxQty |-> {"5", "-1"},
     page |-> {"0", "1", "2", "abc"},
     limit |-> {"0", "1", "2", "-1", "abc"},
     sort |-> {"price", "name", "createdBy", "__proto__"},
     order |-> {"asc", "up"}]

\* every filter at once
AllFilters ==
    [DefaultQuery EXCEPT !.search = "get", !.category = "to",
                         !.minPrice = "5", !.maxPrice = "10",
                         !.minQty = "2", !.maxQty = "5"]

\* no parameter, one, or two of them, and the request with all filters
ListQueries ==
    {DefaultQuery, AllFilters}
    \cup UNION { UNION { { [DefaultQuery EXCEPT ![f] = v, ![g] = w] :
                              v \in ParamValues[f], w \in ParamValues[g] } :
                          g \in DOMAIN ParamValues } :
                  f \in DOMAIN ParamValues }

ListInit ==
    /\ users \in { SeedUsers, { u \in SeedUsers : u.role = "staff" } }
    /\ items \in SUBSET { Stock(k) : k \in 1..MaxStock }
    /\ nextUid = MaxUid + 1
    /\ nextItem = MaxUid + MaxItemId + MaxStock + 1
    /\ now = 0
    /\ issued = {StaffLogin}
    /\ inflight = EmptyBag
    /\ last = NoResponse
    /\ storeUp = TRUE
    /\ client = NoClient

ListNext ==
    \/ \E h \in BearerHeaders, q \in ListQueries :
          Idle /\ getAllItemsFind(h, q)
    \/ \E r \in InFlight("list") :          \* the same request once more
          Ready /\ getAllItemsFind(r.hdr, r.query)
    \/ \E r \in InFlight("list") : Ready /\ getAllItemsCount(r)
    \/ Sent

ListSpec == ListInit /\ [][ListNext]_vars

(***************************************************************************)
(* Paging through a larger store: the first records of the stock, page     *)
(* sizes 10 (none given) and 5, pages 1 to 4, both directions.             *)
(***************************************************************************)
PagingInit ==
    /\ users = SeedUsers
    /\ items \in { { Stock(k) : k \in 1..n } : n \in 0..(3 * MaxStock) }
    /\ nextUid = MaxUid + 1
    /\ nextItem = MaxUid + MaxItemId + 3 * MaxStock + 1
    /\ now = 0
    /\ issued = {StaffLogin}
    /\ inflight = EmptyBag
    /\ last = NoResponse
    /\ storeUp = TRUE
    /\ client = NoClient

PagingQueries ==
    { [DefaultQuery EXCEPT !.limit = l, !.page = p, !.order = o] :
          l \in {Absent, "5"}, p \in {Absent, "1", "2", "3", "4"},
          o \in {Absent, "asc"} }

PagingNext ==
    \/ \E h \in BearerHeaders, q \in PagingQueries :
          Idle /\ getAllItemsFind(h, q)
    \/ \E r \in InFlight("list") : Ready /\ getAllItemsCount(r)
    \/ Sent

PagingSpec == PagingInit /\ [][PagingNext]_vars

\* 12 records and limit 5: three pages; page 1 has 5 records, page 3 has 2,
\* page 4 has none and is still answered 200
TwelveRecordsPaged ==
    (/\ last.op = "list" /\ last.handled
     /\ Cardinality(items) = 12 /\ last.query.limit = "5") =>
        /\ last.status = 200
        /\ last.totalPages = Num(3)
        /\ last.query.page \in {Absent, "1"} => Len(last.items) = 5
        /\ last.query.page = "3" => Len(last.items) = 2
        /\ last.query.page = "4" => Len(last.items) = 0

(***************************************************************************)
(* Vocabulary of the claims about the listing.                             *)
(***************************************************************************)
ListAnswered == last.op = "list" /\ last.handled
ListOk == ListAnswered /\ last.status = 200
SortAllowList == {"name", "price", "quantity", "createdAt"}
RangeParams == {"minPrice", "maxPrice", "minQty", "maxQty"}
Supplied(v) == v \notin {Absent, ""}
\* the string is the decimal form of a non-negative number
NonNegative(v) == v \in DOMAIN NumberTable /\ v # "" /\ NumberTable[v] >= 0
ValueOf(v) == NumberTable[v]

\* the record satisfies every filter the request supplies
Satisfies(i, q) ==
    /\ Supplied(q.search) => RegexTest(q.search, i.name)
    /\ Supplied(q.category) => RegexTest(q.category, i.category)
    /\ Supplied(q.minPrice) => ValueOf(q.minPrice) * 100 <= i.price
    /\ Supplied(q.maxPrice) => i.price <= ValueOf(q.maxPrice) * 100
    /\ Supplied(q.minQty) => ValueOf(q.minQty) <= i.quantity
    /\ Supplied(q.maxQty) => i.quantity <= ValueOf(q.maxQty)
Selected(q) == { i \in items : Satisfies(i, q) }
IdsOf(f) == { f[n].id : n \in DOMAIN f }

\* the request without the range values that are no non-negative number
Dropped(q) ==
    [f \in DOMAIN q |->
        IF f \in RangeParams /\ Supplied(q[f]) /\ ~NonNegative(q[f])
        THEN Absent ELSE q[f]]

(***************************************************************************)
(* C12.  Whatever page and limit a request carries, the listing is         *)
(* answered without a failure, the page number used is at least 1 and the  *)
(* page size handed to the store is at least 1 and at most an upper bound  *)
(* (100 here).                                                             *)
(***************************************************************************)
C12_PageAndLimitClamped ==
    /\ \A r \in InFlight("list") :
          /\ r.limit >= 1 /\ r.limit <= 100
          /\ r.skip >= 0
    /\ (ListAnswered /\ \A f \in DOMAIN last.query :
                            f \notin {"page", "limit"} =>
                                last.query[f] = Absent) =>
          /\ last.status = 200
          /\ last.currentPage # NaN /\ last.currentPage.n >= 1

(***************************************************************************)
(* C13.  The sort field handed to the inventory store is one of name,      *)
(* price, quantity, createdAt.                                             *)
(***************************************************************************)
C13_SortFieldAllowListed ==
    \A r \in InFlight("list") : r.sortOptions.field \in SortAllowList

(***************************************************************************)
(* C14.  A listing whose minPrice, maxPrice, minQty or maxQty is not a     *)
(* non-negative number is answered as the same request without that value: *)
(* 200, with the count and the records of the request without it.          *)
(***************************************************************************)
C14_BadRangeValueDropped ==
    (ListAnswered /\ Dropped(last.query) # last.query) =>
        /\ last.status = 200
        /\ last.totalItems = Cardinality(Matching(Dropped(last.query)))
        /\ IdsOf(last.items) \subseteq
              { i.id : i \in Matching(Dropped(last.query)) }

(***************************************************************************)
(* C15.  The records a 200 listing matched are exactly those that satisfy  *)
(* every supplied filter: totalItems counts them, every returned record is *)
(* one of them, a first page that has room for all of them returns all of  *)
(* them, and without filters every record of the store is matched.         *)
(***************************************************************************)
C15_MatchedAreThoseSatisfyingAll ==
    ListOk =>
        /\ last.totalItems = Cardinality(Selected(last.query))
        /\ IdsOf(last.items) \subseteq { i.id : i \in Selected(last.query) }
        /\ (/\ last.query.page = Absent /\ last.query.limit = Absent
            /\ Cardinality(Selected(last.query)) <= 10) =>
              IdsOf(last.items) = { i.id : i \in Selected(last.query) }
        /\ (\A f \in {"search", "category"} \cup RangeParams :
                 last.query[f] = Absent) =>
              last.totalItems = Cardinality(items)

\* all six filters at once, matching some records of the store but not all
C15_Witness ==
    /\ ListOk
    /\ last.query = AllFilters
    /\ last.totalItems >= 1
    /\ last.totalItems < Cardinality(items)
    /\ Len(last.items) = last.totalItems

(***************************************************************************)
(* C16.  Two list calls with the same parameters and no write in between   *)
(* get the same records in the same order.                                 *)
(***************************************************************************)
C16_SameCallSameResult ==
    \A r1, r2 \in InFlight("list") :
        (r1.query = r2.query /\ r1.hdr = r2.hdr) => r1.found = r2.found

(***************************************************************************)
(* C17.  In a 200 listing totalItems is the number of matching records,    *)
(* currentPage is the page number asked for (1 when none is), and          *)
(* totalPages is the non-negative integer ceil(totalItems / pageSize).     *)
(***************************************************************************)
C17_PageCountFinite ==
    ListOk =>
        /\ last.totalItems = Cardinality(Selected(last.query))
        /\ last.currentPage =
              Num(IF last.query.page = Absent THEN 1
                  ELSE ValueOf(last.query.page))
        /\ last.totalPages \notin {NaN, Infinity}
        /\ last.totalPages.n >= 0
        /\ LET size == IF last.query.limit = Absent THEN 10
                        ELSE ValueOf(last.query.limit)
           IN  /\ last.totalPages.n * size >= last.totalItems
               /\ (last.totalPages.n - 1) * size < last.totalItems
                     \/ last.totalItems = 0

(***************************************************************************)
(* C18.  A 200 listing holds matching records in the order of the sort     *)
(* field (ascending exactly when order is "asc"), and as many of them as   *)
(* are left after skipping (page - 1) * pageSize, at most pageSize.        *)
(***************************************************************************)
C18_SortedPage ==
    ListOk =>
        LET q == last.query
            size == IF q.limit = Absent THEN 10 ELSE ValueOf(q.limit)
            page == IF q.page = Absent THEN 1 ELSE ValueOf(q.page)
            left == Cardinality(Selected(q)) - (page - 1) * size
            field == IF q.sort = Absent THEN "createdAt" ELSE q.sort
        IN  /\ Len(last.items) <= size
            /\ Len(last.items) =
                  IF left <= 0 THEN 0 ELSE IF left < size THEN left ELSE size
            /\ \A a, b \in DOMAIN last.items :
                  a < b =>
                    LET x == CHOOSE i \in items : i.id = last.items[a].id
                        y == CHOOSE i \in items : i.id = last.items[b].id
                    IN  IF q.order = "asc"
                        THEN SortKey(x, field) <= SortKey(y, field)
                        ELSE SortKey(x, field) >= SortKey(y, field)

(***************************************************************************)
(* C19.  A listing never fails over a creator reference: the request       *)
(* without parameters is answered 200 with every record of the store, a    *)
(* record whose createdBy refers to no credential record has an empty      *)
(* creator, every other one has its creator's name and email.              *)
(***************************************************************************)
C19_MissingCreatorListed ==
    /\ (ListAnswered /\ last.query = DefaultQuery) =>
          /\ last.status = 200
          /\ IdsOf(last.items) = { i.id : i \in items }
    /\ ListOk =>
          \A n \in DOMAIN last.items :
              \E i \in items :
                  /\ i.id = last.items[n].id
                  /\ last.items[n].createdBy =
                        { [id |-> u.id, name |-> u.name, email |-> u.email] :
                              u \in { x \in users : x.id = i.createdBy } }

\* a page with a record whose creator is gone next to one whose creator is
\* still there
C19_Witness ==
    /\ ListOk
    /\ \E m, n \in DOMAIN last.items :
          /\ last.items[m].createdBy = {}
          /\ last.items[n].createdBy # {}
          /\ \A c \in last.items[n].createdBy :
                c.name = "Ann" /\ c.email = "b@x.io"

(***************************************************************************)
(* C20.  An admin's PUT or DELETE on /items/{id}: when no record of the    *)
(* store has that id the answer is 404 and the store is unchanged; when    *)
(* one has, DELETE removes exactly that record and PUT (with a body the    *)
(* schema accepts) changes only that record, each answered 200.            *)
(***************************************************************************)
C20_MissingIdIs404 ==
    [][ (/\ last'.op \in {"update", "delete"} /\ last' # last
         /\ last'.handled /\ RoleOf(last') = "admin") =>
          LET target == { i \in items : IdToString(i.id) = last'.id }
          IN  IF target = {}
              THEN last'.status = 404 /\ items' = items
              ELSE IF last'.op = "delete"
              THEN last'.status = 200 /\ items' = items \ target
              ELSE ItemFieldsValid(last'.body) =>
                     /\ last'.status = 200
                     /\ \A i \in items' : IdToString(i.id) = last'.id =>
                           \A f \in DOMAIN last'.body : i[f] = last'.body[f]
                     /\ { i.id : i \in items' } = { i.id : i \in items }
                     /\ \A i \in items \ target : i \in items'
      ]_vars

(***************************************************************************)
(* Registration on its own: from empty stores, one request at a time, with *)
(* bodies in which each field is missing, empty or filled, and the role is *)
(* missing, one of the enum, or something else.                            *)
(***************************************************************************)
FieldInputs ==
    [name |-> {Absent, "", "Ann"},
     email |-> {Absent, "", "a@x.io", "b@x.io"},
     password |-> {Absent, "", "pw1"},
     role |-> {Absent, "admin", "staff", "guest", ""}]

\* the JSON body: the fields that are given
BodyOf(full) == [f \in { g \in DOMAIN full : full[g] # Absent } |-> full[f]]

WideRegisterBodies ==
    { BodyOf(full) : full \in [name : FieldInputs.name,
                               email : FieldInputs.email,
                               password : FieldInputs.password,
                               role : FieldInputs.role] }

RegisterNext ==
    \/ \E b \in WideRegisterBodies : Idle /\ registerUserFind(NoHeader, b)
    \/ \E r \in InFlight("register") : Ready /\ registerUserCreate(r)
    \/ \E e \in Emails, p \in {"", "pw1"} :
          Idle /\ loginUser(e, p) /\ Cardinality(issued') <= MaxTokens + 1
    \/ Sent

RegisterSpec == ScenarioInit /\ [][RegisterNext]_vars

RequiredFields == {"name", "email", "password"}
RegisterAnswered == last.op = "register"

(***************************************************************************)
(* C21.  A register request in which name, email or password is missing or *)
(* empty is answered 400 and creates no credential record.                 *)
(***************************************************************************)
C21_MissingFieldIs400 ==
    [][ (/\ last'.op = "register" /\ last' # last
         /\ \E f \in RequiredFields : Field(last'.body, f) \in {Absent, ""}) =>
          /\ last'.status = 400
          /\ users' = users
      ]_vars

AdminLogin ==
    [token |-> JwtSign([id |-> IdToString(1), role |-> "admin"],
                       JWT_SECRET, 0),
     user |-> [id |-> 1, name |-> "Ann", role |-> "admin"]]

WideItemBodies ==
    ItemBodies
    \cup { [name |-> "Widget", category |-> "Tools", quantity |-> 5,
            price |-> 999, createdBy |-> IdToString(2)] }

WideUpdateBodies ==
    { [quantity |-> q] : q \in {-1, 7} }
    \cup { [price |-> p] : p \in {-1, 500} }
    \cup { [quantity |-> 7, price |-> -1], [name |-> "Gadget"] }
    \cup { [createdBy |-> IdToString(u)] : u \in UserIds }
    \cup { ("$inc" :> [quantity |-> -10]) }

ItemInit ==
    /\ users = SeedUsers
    /\ \/ items = {} /\ nextItem = MaxUid + 1
       \/ items = SeedItems /\ nextItem = MaxUid + 2
    /\ nextUid = MaxUid + 1
    /\ now = 0
    /\ issued \in { {AdminLogin}, {StaffLogin} }
    /\ inflight = EmptyBag
    /\ last = NoResponse
    /\ storeUp = TRUE
    /\ client = NoClient

ItemNext ==
    \/ \E h \in BearerHeaders, b \in WideItemBodies : Ready /\ createItem(h, b)
    \/ \E h \in BearerHeaders, i \in ParamIds, b \in WideUpdateBodies :
          /\ Ready /\ updateItem(h, i, b)
          /\ \A r \in items' : r.quantity >= -MaxDebt
    \/ \E h \in BearerHeaders, i \in ParamIds : Ready /\ deleteItem(h, i)
    \/ Sent

ItemSpec == ItemInit /\ [][ItemNext]_vars

\* the request would store a negative quantity or price
StoresNegative(body) ==
    \/ Has(body, "quantity") /\ body.quantity < 0
    \/ Has(body, "price") /\ body.price < 0

(***************************************************************************)
(* C24.  Every inventory record has quantity >= 0 and price >= 0; an       *)
(* admin's create or update whose body holds a negative quantity or price  *)
(* is not answered 200 and leaves the store unchanged.                     *)
(***************************************************************************)
C24_NoNegativeStock ==
    /\ [](\A i \in items : i.quantity >= 0 /\ i.price >= 0)
    /\ [][ (/\ last'.op \in {"create", "update"} /\ last' # last
             /\ RoleOf(last') = "admin"
             /\ StoresNegative(last'.body)) =>
              /\ last'.status # 200
              /\ items' = items
          ]_vars

(***************************************************************************)
(* C27.  The createdBy of an inventory record is the id of the token       *)
(* subject that created it whatever the body of the create request holds,  *)
(* and no update request changes the createdBy of a record.                *)
(***************************************************************************)
C27_CreatedByFixed ==
    [][ /\ (last'.op = "create" /\ last' # last /\ last'.status = 200) =>
              \A i \in items' \ items :
                  IdToString(i.createdBy) = last'.hdr.token.payload.id
        /\ \A i \in items : \A j \in items' :
              i.id = j.id => j.createdBy = i.createdBy
      ]_vars

(***************************************************************************)
(* Vocabulary of C26: the strings of the model that contain the text,      *)
(* letter case aside.  "(" and "." occur in none of them.                  *)
(***************************************************************************)
SubstringTable ==
    { <<"wid", "Widget">>, <<"Widget", "Widget">>, <<"get", "Widget">>,
      <<"get", "Gadget">>, <<"tool", "Tools">>, <<"Tools", "Tools">>,
      <<"to", "Tools">>, <<"to", "Toys">> }
ContainsText(text, str) == <<text, str>> \in SubstringTable
OnlyTextFilters(q) ==
    /\ Supplied(q.search) \/ Supplied(q.category)
    /\ \A f \in DOMAIN q \ {"search", "category"} : q[f] = Absent

(***************************************************************************)
(* C26.  A listing that carries only search and/or category is answered    *)
(* 200 whatever characters the texts hold, and it matches exactly the      *)
(* records whose name contains the search text and whose category contains *)
(* the category text, letter case aside.                                   *)
(***************************************************************************)
C26_TextFiltersAreLiteral ==
    (ListAnswered /\ OnlyTextFilters(last.query)) =>
        /\ last.status = 200
        /\ last.totalItems =
              Cardinality({ i \in items :
                  /\ Supplied(last.query.search) =>
                        ContainsText(last.query.search, i.name)
                  /\ Supplied(last.query.category) =>
                        ContainsText(last.query.category, i.category) })

(***************************************************************************)
(* C28.  In every 200 listing with a page size of at least 1, totalItems   *)
(* is not smaller than the number of records returned, and when page 1     *)
(* returns fewer records than the page size, totalItems is that number.    *)
(* Creates and deletes may run while the listing is between its awaits.    *)
(***************************************************************************)
C28_ItemsAndTotalAgree ==
    (/\ ListOk
     /\ LimitOf(last.query) # NaN
     /\ LimitOf(last.query).n >= 1) =>
        /\ last.totalItems >= Len(last.items)
        /\ (/\ PageOf(last.query) = Num(1)
            /\ Len(last.items) < LimitOf(last.query).n) =>
              last.totalItems = Len(last.items)

(***************************************************************************)
(* The walk-through once more, with a database that may become unreachable *)
(* and reachable again between any two steps, also between the two awaits  *)
(* of one request.                                                         *)
(***************************************************************************)
FailureNext ==
    \/ \E h \in RegisterHeaders, b \in {AdminBody, StaffBody} :
          Idle /\ registerUserFind(h, b)
    \/ \E r \in InFlight("register") : Ready /\ registerUserCreate(r)
    \/ \E e \in Emails :
          Idle /\ loginUser(e, "pw1") /\ Cardinality(issued') <= MaxTokens + 1
    \/ \E h \in BearerHeaders : Idle /\ createItem(h, WidgetBody)
    \/ \E h \in BearerHeaders, i \in ItemIds, b \in UpdateBodies :
          Idle /\ updateItem(h, IdToString(i), b)
    \/ \E h \in BearerHeaders, i \in ItemIds :
          Idle /\ deleteItem(h, IdToString(i))
    \/ \E h \in BearerHeaders : Idle /\ getAllItemsFind(h, DefaultQuery)
    \/ \E r \in InFlight("list") : Ready /\ getAllItemsCount(r)
    \/ Ready /\ StoreOutage
    \/ Sent

FailureSpec == ScenarioInit /\ [][FailureNext]_vars

\* this step is a handler that reached an awaited store call while the
\* database was unreachable: verifyToken and the role check come before
\* the first store call and end the request with 401 or 403
StoreCallFails ==
    /\ ~storeUp
    /\ last' # NoResponse
    /\ last'.status \notin {401, 403}

(***************************************************************************)
(* C25.  A handler step whose store call fails answers the request with    *)
(* 500, the request is over (it is not in flight afterwards, so no store   *)
(* call follows for it), and users, items, the id counters and the issued  *)
(* tokens are what they were; while the store is unreachable no request    *)
(* gets past its first store call.                                         *)
(***************************************************************************)
C25_StoreFailureIs500 ==
    [][ /\ StoreCallFails =>
              /\ last'.status = 500
              /\ BagCardinality(inflight') <= BagCardinality(inflight)
              /\ \A r \in BagToSet(inflight') :
                    CopiesIn(r, inflight') <= CopiesIn(r, inflight)
              /\ UNCHANGED <<users, items, nextUid, nextItem, issued>>
        /\ ~storeUp =>
              BagCardinality(inflight') <= BagCardinality(inflight)
      ]_vars

\* the admin's create of the Widget met an unreachable store: answered 500,
\* nothing stored
C25_Witness ==
    /\ ~storeUp
    /\ last.op = "create" /\ last.handled
    /\ RoleOf(last) = "admin"
    /\ last.status = 500
    /\ items = {}

(***************************************************************************)
(* The browser.  AuthProvider holds user and token and keeps a copy in     *)
(* localStorage; the pages send one request at a time and handle its       *)
(* response.  A request is three steps: the page's handler starts it, the  *)
(* server serves it, the handler's continuation gets the response.         *)
(***************************************************************************)
Null == [null |-> TRUE]                     \* null; also a key not stored
NoNotice == [kind |-> "none"]
NoRequest == [op |-> "none"]
RenderError == "(render error)"             \* the tree is unmounted

\* JSON.stringify / JSON.parse of the user object: the text lists the
\* members in insertion order
JsonStringify(u) == [text |-> <<"id", u.id, "name", u.name, "role", u.role>>]
JsonParse(t) ==
    [f \in { t.text[k] : k \in { j \in DOMAIN t.text : j % 2 = 1 } } |->
        t.text[(CHOOSE k \in DOMAIN t.text :
                    k % 2 = 1 /\ t.text[k] = f) + 1]]

\* the body res.json sends for a login: the ObjectId becomes its hex string
LoginData(resp) ==
    [user |-> [id |-> IdToString(resp.user.id), name |-> resp.user.name,
               role |-> resp.user.role],
     token |-> resp.token]

\* data.message of a response that is not ok
MessageOf(resp) ==
    CASE resp.status = 401 /\ resp.op = "login" -> "Invalid Credentials"
      [] resp.status = 401 /\ resp.op # "login" -> "jwt expired"
      [] resp.status = 403 -> "Access denied. Admins only"
      [] resp.status = 404 /\ resp.op = "login" -> "User not found"
      [] resp.status = 404 /\ resp.op # "login" -> "Item not found"
      [] resp.status = 400 -> "User already exists!"
      [] OTHER -> "(err.message)"

\* useState initialisers of AuthProvider
AuthProviderMount(storage) ==
    [user |-> IF storage.user = Null THEN Null ELSE JsonParse(storage.user),
     token |-> storage.token]

\* mutant: logout leaves the persisted copy in place
logout_KeepsStorage(c) == [c EXCEPT !.user = Null, !.token = Null]

login(c, userData, tokenData) ==
    [c EXCEPT !.user = userData, !.token = tokenData,
              !.storage = [user |-> JsonStringify(userData),
                           token |-> tokenData]]

logout(c) ==
    [c EXCEPT !.user = Null, !.token = Null,
              !.storage = [user |-> Null, token |-> Null]]

\* component state of a page that has just been mounted
Mounted(c, route) ==
    [c EXCEPT !.route = route, !.notice = NoNotice, !.pending = NoRequest,
              !.page = 1, !.totalPages = 1, !.rows = << >>, !.search = ""]

FreshClient ==
    Mounted([user |-> Null, token |-> Null,
             storage |-> [user |-> Null, token |-> Null],
             event |-> "load", route |-> "", notice |-> NoNotice,
             pending |-> NoRequest, page |-> 1, totalPages |-> 1,
             rows |-> << >>, search |-> ""], "/login")

serverVars == <<users, items, now, issued, inflight, nextUid, nextItem,
                storeUp>>
Quiet == Idle /\ client.pending = NoRequest
\* a step of the browser alone
Browser(c) == client' = c /\ last' = NoResponse /\ UNCHANGED serverVars
\* the continuation after await fetch / await res.json
Answered(op) == last.op = op /\ client.pending.op = op
\* Authorization: `Bearer ${token}`
AuthorizationOf(c) == [scheme |-> "Bearer", token |-> c.token]

\* fetchItems up to its await: ...filters, page, limit: 5
DashQuery(c) ==
    [search |-> c.search, category |-> "", minPrice |-> "",
     maxPrice |-> "", minQty |-> "", maxQty |-> "",
     page |-> ToString(c.page), limit |-> "5",
     sort |-> "createdAt", order |-> "desc"]
fetchItems(c) == [c EXCEPT !.pending = [op |-> "list", query |-> DashQuery(c)]]

Routes == {"/login", "/register", "/dashboard", "/admin"}

\* the address is entered or the page is reloaded: AuthProvider starts
\* from localStorage, then the route's element renders
Load(route) ==
    /\ Quiet
    /\ LET s == AuthProviderMount(client.storage)
           c == Mounted([client EXCEPT !.user = s.user, !.token = s.token,
                                       !.event = "load"], route)
           isAdmin == s.user # Null /\ s.user.role = "admin"
       IN  Browser(
             CASE route = "/login" -> c
               \* ProtectedRoute
               [] route = "/dashboard" ->
                    IF s.token = Null THEN [c EXCEPT !.route = "/login"]
                    ELSE c
               \* AdminDashboard: both effects run after the first render
               [] route = "/admin" ->
                    IF isAdmin THEN fetchItems(c)
                    ELSE [c EXCEPT !.route = "/login"]
               \* Register reads user.role while rendering
               [] route = "/register" ->
                    IF s.user = Null THEN [c EXCEPT !.route = RenderError]
                    ELSE IF ~isAdmin THEN [c EXCEPT !.route = "/dashboard"]
                    ELSE c)

(***************************************************************************)
(* Login.jsx                                                               *)
(***************************************************************************)
LoginHandleSubmit(email, password) ==
    /\ Quiet /\ client.route = "/login"
    /\ Browser([client EXCEPT !.notice = NoNotice, !.event = "submit",
                   !.pending = [op |-> "login", email |-> email,
                                password |-> password]])

LoginServed ==
    /\ Idle /\ client.pending.op = "login"
    /\ loginUser(client.pending.email, client.pending.password)

LoginAnswered ==
    /\ Answered("login")
    /\ Browser(
         IF last.status = 200
         THEN [login(client, LoginData(last).user, LoginData(last).token)
                  EXCEPT !.route = "/dashboard ", !.pending = NoRequest,
                         !.event = "login"]
         ELSE [client EXCEPT !.pending = NoRequest, !.event = "login failed",
                  !.notice = [kind |-> "setError",
                              message |-> MessageOf(last)]])

(***************************************************************************)
(* Dashboard.jsx                                                           *)
(***************************************************************************)
handleLogout ==
    /\ Quiet /\ client.route = "/dashboard"
    /\ Browser([logout(client) EXCEPT !.route = "/login",
                                      !.event = "logout"])

(***************************************************************************)
(* Register.jsx                                                            *)
(***************************************************************************)
RegisterForms ==
    { [name |-> "Ann", email |-> e, password |-> "pw1", role |-> "staff"] :
          e \in Emails }

RegisterHandleSubmit(form) ==
    /\ Quiet /\ client.route = "/register"
    /\ Browser([client EXCEPT !.notice = NoNotice, !.event = "submit",
                   !.pending = [op |-> "register", body |-> form]])

RegisterServed ==
    /\ Idle /\ client.pending.op = "register"
    /\ registerUserFind(AuthorizationOf(client), client.pending.body)

RegisterAnsweredByPage ==
    /\ Answered("register")
    /\ Browser([client EXCEPT !.pending = NoRequest, !.event = "answer",
                   !.notice = IF last.status = 200
                              THEN [kind |-> "setSuccess",
                                    message |-> "User registered successfully!"]
                              ELSE [kind |-> "setError",
                                    message |-> MessageOf(last)]])

(***************************************************************************)
(* AdminDashboard.jsx                                                      *)
(***************************************************************************)
ListServed ==
    /\ Idle /\ client.pending.op = "list"
    /\ getAllItemsFind(AuthorizationOf(client), client.pending.query)

\* setItems(data.items); setTotalPages(data.totalPages || 1): there is no
\* look at res.ok, and a body without items makes the next render throw
ListAnsweredByPage ==
    /\ Answered("list")
    /\ Browser(
         IF last.status = 200
         THEN [client EXCEPT
                  !.pending = NoRequest, !.event = "listed",
                  !.rows = [n \in DOMAIN last.items |-> last.items[n].id],
                  !.totalPages = IF last.totalPages \in {NaN, Infinity}
                                    \/ last.totalPages.n = 0
                                 THEN 1 ELSE last.totalPages.n]
         ELSE Mounted([client EXCEPT !.event = "listed"], RenderError))

\* the effect on [token, page] fetches when the page has changed
PageSet(c, page) ==
    IF page = c.page THEN c ELSE fetchItems([c EXCEPT !.page = page])

\* the Prev button, enabled unless page === 1
PrevPage ==
    /\ Quiet /\ client.route = "/admin"
    /\ client.page # 1
    /\ Browser(PageSet([client EXCEPT !.event = "prev"],
                       IF client.page - 1 > 1 THEN client.page - 1 ELSE 1))

\* the Next button, enabled unless page === totalPages
NextPage ==
    /\ Quiet /\ client.route = "/admin"
    /\ client.page # client.totalPages
    /\ Browser(PageSet([client EXCEPT !.event = "next"],
                       IF client.page + 1 < client.totalPages
                       THEN client.page + 1 ELSE client.totalPages))

handleFilterChange(search) ==
    /\ Quiet /\ client.route = "/admin"
    /\ search # client.search
    /\ Browser(PageSet([client EXCEPT !.search = search,
                                      !.event = "filter"], 1))

\* the Apply button
Apply ==
    /\ Quiet /\ client.route = "/admin"
    /\ Browser(fetchItems([client EXCEPT !.event = "apply"]))

\* the add form: Number(formData.quantity), Number(formData.price)
AdminHandleSubmit(form) ==
    /\ Quiet /\ client.route = "/admin"
    /\ Browser([client EXCEPT !.event = "submit",
                   !.pending = [op |-> "create", body |-> form]])

handleUpdate(id, form) ==
    /\ Quiet /\ client.route = "/admin"
    /\ \E n \in DOMAIN client.rows : client.rows[n] = id
    /\ Browser([client EXCEPT !.event = "submit",
                   !.pending = [op |-> "update", id |-> IdToString(id),
                                body |-> form]])

handleDelete(id) ==
    /\ Quiet /\ client.route = "/admin"
    /\ \E n \in DOMAIN client.rows : client.rows[n] = id
    /\ Browser([client EXCEPT !.event = "submit",
                   !.pending = [op |-> "delete", id |-> IdToString(id)]])

WriteServed ==
    /\ Idle
    /\ LET r == client.pending
           h == AuthorizationOf(client)
       IN  CASE r.op = "create" -> createItem(h, r.body)
             [] r.op = "update" -> updateItem(h, r.id, r.body)
             [] r.op = "delete" -> deleteItem(h, r.id)
             [] OTHER -> FALSE

\* if (!res.ok) throw ...; toast.success(...); fetchItems()
\* catch (err) { toast.error(err.message) }
WriteAnswered ==
    /\ \E op \in AdminOps : Answered(op)
    /\ Browser(
         IF last.status = 200
         THEN fetchItems([client EXCEPT !.event = "answer",
                             !.notice = [kind |-> "toast.success",
                                         message |-> last.op]])
         ELSE [client EXCEPT !.pending = NoRequest, !.event = "answer",
                  !.notice = [kind |-> "toast.error",
                              message |-> MessageOf(last)]])

(***************************************************************************)
(* One browser against the server: an admin account exists, the inventory  *)
(* is empty, nobody is signed in.  Time passes, so a token the browser     *)
(* holds can run out.                                                      *)
(***************************************************************************)
ClientInit ==
    /\ users = { u \in SeedUsers : u.role = "admin" }
    /\ items = {}
    /\ nextUid = MaxUid /\ nextItem = MaxUid + 1
    /\ now = 0
    /\ issued = {}
    /\ inflight = EmptyBag
    /\ last = NoResponse
    /\ storeUp = TRUE
    /\ client = FreshClient

ClientNext ==
    \/ \E r \in Routes : Load(r)
    \/ \E e \in Emails, p \in Passwords \cup WrongPasswords :
          LoginHandleSubmit(e, p)
    \/ LoginServed
    \/ LoginAnswered
    \/ handleLogout
    \/ \E f \in RegisterForms : nextUid <= MaxUid /\ RegisterHandleSubmit(f)
    \/ RegisterServed
    \/ \E r \in InFlight("register") : Ready /\ registerUserCreate(r)
    \/ RegisterAnsweredByPage
    \/ ListServed
    \/ \E r \in InFlight("list") : Ready /\ getAllItemsCount(r)
    \/ ListAnsweredByPage
    \/ nextItem <= MaxUid + MaxItemId /\ AdminHandleSubmit(WidgetBody)
    \/ \E i \in ItemIds :
          handleUpdate(i, [WidgetBody EXCEPT !.quantity = 7])
    \/ \E i \in ItemIds : handleDelete(i)
    \/ WriteServed
    \/ WriteAnswered
    \/ Ready /\ Tick

ClientSpec == ClientInit /\ [][ClientNext]_vars

\* this step is the browser handling the event
Did(event) == client' # client /\ client'.event = event

(***************************************************************************)
(* C30.  In the session holder the token is set exactly when the user is   *)
(* set; logout leaves user, token and both persisted entries empty; a      *)
(* successful login sets the user and the token of the response; and a     *)
(* page load gives back the user and the token the holder had before it,   *)
(* which are those of the last login unless a logout followed.             *)
(***************************************************************************)
C30_SessionHolder ==
    /\ []((client.token = Null) <=> (client.user = Null))
    /\ [][ /\ Did("logout") =>
                 /\ client'.user = Null /\ client'.token = Null
                 /\ client'.storage = [user |-> Null, token |-> Null]
           /\ Did("login") =>
                 /\ client'.user = LoginData(last).user
                 /\ client'.token = last.token
           /\ Did("load") =>
                 /\ client'.user = client.user
                 /\ client'.token = client.token
       ]_vars

\* the page was loaded again after a login: user and token are back
C30_Witness ==
    /\ client.event = "load"
    /\ client.route = "/dashboard"
    /\ client.user # Null /\ client.user.role = "staff"
    /\ client.token \in HeldTokens

(***************************************************************************)
(* C22.  When the browser gets the response to a protected call (list,     *)
(* create, update, delete, register): after a 401 it shows the login page, *)
(* and after a 403 it stays where it is and shows the access-denied        *)
(* message.                                                                *)
(***************************************************************************)
C22_Distinguishes401And403 ==
    [][ \A op \in {"list", "create", "update", "delete", "register"} :
          (Answered(op) /\ client' # client) =>
              /\ last.status = 401 => client'.route = "/login"
              /\ last.status = 403 =>
                    /\ client'.route = client.route
                    /\ Has(client'.notice, "message")
                    /\ client'.notice.message = "Access denied. Admins only"
      ]_vars

(***************************************************************************)
(* The admin's inventory page over six records, page size 5: the admin is  *)
(* signed in and the page has just been opened.                            *)
(***************************************************************************)
DashboardInit ==
    /\ users = SeedUsers
    /\ items = { Stock(k) : k \in 1..(MaxStock + 2) }
    /\ nextUid = MaxUid + 1
    /\ nextItem = MaxUid + 1
    /\ now = 0
    /\ issued = {AdminLogin}
    /\ inflight = EmptyBag
    /\ last = NoResponse
    /\ storeUp = TRUE
    /\ client = fetchItems(Mounted(
                    login(FreshClient, LoginData(AdminLogin).user,
                          AdminLogin.token), "/admin"))

DashboardNext ==
    \/ ListServed
    \/ \E r \in InFlight("list") : Ready /\ getAllItemsCount(r)
    \/ ListAnsweredByPage
    \/ PrevPage
    \/ NextPage
    \/ \E t \in {"", "wid"} : handleFilterChange(t)
    \/ Apply
    \/ nextItem <= MaxUid + MaxItemId /\ AdminHandleSubmit(WidgetBody)
    \/ \E i \in ObjectIds : handleDelete(i)
    \/ WriteServed
    \/ WriteAnswered

DashboardSpec == DashboardInit /\ [][DashboardNext]_vars

\* the number of pages the store has for the page's filter
PagesInStore ==
    LET n == Cardinality(Matching(DashQuery(client)))
    IN  IF n = 0 THEN 1 ELSE (n + 4) \div 5

(***************************************************************************)
(* C29.  Whenever the inventory page has handled the answer to a list      *)
(* refresh, its page number is within 1..totalPages, and its Next button   *)
(* (disabled exactly when page = totalPages) is disabled if the store has  *)
(* no later page.                                                          *)
(***************************************************************************)
C29_PageWithinRange ==
    (client.route = "/admin" /\ client.event = "listed") =>
        /\ client.page >= 1
        /\ client.page <= client.totalPages
        /\ client.page >= PagesInStore => client.page = client.totalPages

====
